---- MODULE Spec2Model ----
(***************************************************************************)
(* Jucer2CMake (src/Jucer2CMake/main.cpp): translation of a .jucer project *)
(* document into a sequence of Reprojucer directives.                      *)
(*                                                                         *)
(* A string is a sequence of tokens.  A token is either one character      *)
(* ("a", "\"", "\\", "\n", "/") or a fragment that the program only ever   *)
(* copies or compares as a whole (a tag such as "PROJECT_NAME", a file     *)
(* stem such as "f1").  A ValueTree node's properties are a function from  *)
(* the names of the properties that are present to their string values.    *)
(* The output file is the sequence `out` of directive blocks               *)
(* [directive, name, lines], the error stream the sequence `err` of lines. *)
(***************************************************************************)
EXTENDS Integers, Sequences, FiniteSets, TLC

VARIABLES
  pc,          \* position of main: "start", "parse", "header", "settings",
               \* "files", "walk", "modules", "exporters", "end", "done"
  argc,        \* number of command-line arguments, program name included
  xml,         \* what XmlDocument::parse returned: "unread", "nullptr" or the root tag
  project,     \* the parsed JUCERPROJECT tree, NoProject before parsing
  nodesLeft,   \* children of MAINGROUP's subtree not yet read
  doc,         \* the part of MAINGROUP's subtree read so far, as open/file/close events
  groupNames,  \* std::vector<std::string> groupNames (main.cpp:315)
  stack,       \* the active calls of processGroup, innermost last
  modIdx,      \* modules already written
  expIdx,      \* supported exporters already tried
  out,         \* CMakeLists.txt, as a sequence of directive blocks
  err,         \* lines written to std::cerr
  exitStatus   \* Running, or the value returned by main

vars == <<pc, argc, xml, project, nodesLeft, doc, groupNames, stack, modIdx, expIdx,
          out, err, exitStatus>>

(***************************************************************************)
(* Bounds of the model                                                     *)
(***************************************************************************)
MaxNodes == 2
MaxDepth == 2
MaxTreeNodes == 4
MaxTreeDepth == 3
MaxLen == 2
MaxUnset == 1
MaxConfigs == 2

Running == 0 - 1
NoProject == [type |-> "none"]

Max(S) == CHOOSE x \in S : \A y \in S : y <= x
Min(S) == CHOOSE x \in S : \A y \in S : x <= y

(***************************************************************************)
(* Strings                                                                 *)
(***************************************************************************)
Insert(value, pos, tok) ==
  SubSeq(value, 1, pos - 1) \o <<tok>> \o SubSeq(value, pos, Len(value))

\* escape's loop from position pos (1-based): find_first_of, insert, pos += 2
RECURSIVE escapeFrom(_, _, _)
escapeFrom(charsToEscape, value, pos) ==
  LET hits == {i \in pos..Len(value) : value[i] \in charsToEscape}
  IN IF hits = {} THEN value
     ELSE escapeFrom(charsToEscape, Insert(value, Min(hits), "\\"), Min(hits) + 2)

escape(charsToEscape, value) == escapeFrom(charsToEscape, value, 1)

\* std::accumulate(first, last, init, sum + sep + elm)
RECURSIVE accumulate(_, _, _)
accumulate(sum, rest, sep) ==
  IF rest = <<>> THEN sum
  ELSE accumulate(sum \o sep \o Head(rest), Tail(rest), sep)

join(sep, elements) ==
  IF elements = <<>> THEN <<>>
  ELSE accumulate(Head(elements), Tail(elements), sep)

\* split on a one-character separator: the tokens between its occurrences
RECURSIVE splitFrom(_, _, _)
splitFrom(sep, value, start) ==
  LET ends == {i \in start..Len(value) : value[i] = sep}
  IN IF ends = {} THEN <<SubSeq(value, start, Len(value))>>
     ELSE <<SubSeq(value, start, Min(ends) - 1)>> \o splitFrom(sep, value, Min(ends) + 1)

split(sep, value) == splitFrom(sep, value, 1)

(***************************************************************************)
(* juce::ValueTree properties and juce::var conversions, as main uses them *)
(***************************************************************************)
hasProperty(tree, property) == property \in DOMAIN tree

\* getProperty(property).toString(): a void var (absent property) prints as ""
getProperty(tree, property) == IF hasProperty(tree, property) THEN tree[property] ELSE <<>>

Digits == <<"0", "1", "2", "3", "4", "5", "6", "7", "8", "9">>
DigitValue(c) == (CHOOSE i \in 1..10 : Digits[i] = c) - 1
IsDigit(c) == \E i \in 1..10 : Digits[i] = c

RECURSIVE leadingInt(_, _)
leadingInt(value, acc) ==
  IF value = <<>> \/ ~IsDigit(Head(value)) THEN acc
  ELSE leadingInt(Tail(value), 10 * acc + DigitValue(Head(value)))

\* int{tree.getProperty(property)}: a void var converts to 0, a string var to the
\* number its leading digits spell (0 when there is none)
intProperty(tree, property) == leadingInt(getProperty(tree, property), 0)

getSetting(valueTree, cmakeTag, property) ==
  IF hasProperty(valueTree, property) /\ valueTree[property] # <<>>
  THEN <<cmakeTag, " \"">> \o escape({"\""}, valueTree[property]) \o <<"\"">>
  ELSE <<"# ", cmakeTag>>

onOffProjectSetting(jucerProject, cmakeTag, property) ==
  IF hasProperty(jucerProject, property)
  THEN <<cmakeTag, " ", IF intProperty(jucerProject, property) # 0 THEN "ON" ELSE "OFF">>
  ELSE <<"# ", cmakeTag>>

Block(directive, name, lines) == [directive |-> directive, name |-> name, lines |-> lines]

(***************************************************************************)
(* main, up to the project settings                                        *)
(***************************************************************************)
jucerFilePath == <<"a", ".", "j">>
jucerFileName == jucerFilePath
AlphaNum == {"a", "j"} \cup {Digits[i] : i \in 1..10}

\* std::replace_if(..., !(isalpha || isdigit), '_')
escapedJucerFileName ==
  [i \in 1..Len(jucerFileName) |->
     IF jucerFileName[i] \in AlphaNum THEN jucerFileName[i] ELSE "_"]

\* A variant of printError that writes the message alone.
printErrorBare(error) == Append(err, error)

\* main.cpp:32-35
printError(error) == Append(err, <<"error: ">> \o error)

Init ==
  /\ pc = "start"
  /\ argc \in 1..4
  /\ xml = "unread"
  /\ project = NoProject
  /\ nodesLeft = 0
  /\ doc = <<>>
  /\ groupNames = <<>>
  /\ stack = <<>>
  /\ modIdx = 0
  /\ expIdx = 0
  /\ out = <<>>
  /\ err = <<>>
  /\ exitStatus = Running

\* main.cpp:104-111
CheckArguments ==
  /\ pc = "start"
  /\ IF argc # 3
     THEN /\ err' = Append(err, <<"usage: Jucer2CMake", " <jucer_project_file>",
                                  " <Reprojucer.cmake_file>">>)
          /\ exitStatus' = 1
          /\ pc' = "done"
     ELSE /\ pc' = "parse"
          /\ UNCHANGED <<err, exitStatus>>
  /\ UNCHANGED <<argc, xml, project, nodesLeft, doc, groupNames, stack, modIdx, expIdx, out>>

\* What juce::XmlDocument::parse can return for the file: no element, or an
\* element with some root tag.
XmlResults == {"nullptr", "JUCERPROJECT", "OTHER"}

\* main.cpp:117-131.  ValueTree::fromXml gives the tree the type of the root tag.
ParseProject(In) ==
  /\ pc = "parse"
  /\ \E parsed \in XmlResults :
       /\ xml' = parsed
       /\ IF parsed = "nullptr" \/ parsed # "JUCERPROJECT"
          THEN /\ err' = printError(jucerFilePath \o <<" is not a valid Jucer project.">>)
               /\ exitStatus' = 1
               /\ pc' = "done"
               /\ UNCHANGED <<project, nodesLeft>>
          ELSE \E p \in In.projects :
                 LET jucerProject == [p EXCEPT !.type = parsed]
                 IN IF jucerProject.type # "JUCERPROJECT"
                    THEN /\ err' = printError(jucerFilePath
                                                \o <<" is not a valid Jucer project.">>)
                         /\ exitStatus' = 1
                         /\ pc' = "done"
                         /\ UNCHANGED <<project, nodesLeft>>
                    ELSE /\ project' = jucerProject
                         /\ nodesLeft' = In.nodes
                         /\ pc' = "header"
                         /\ UNCHANGED <<err, exitStatus>>
  /\ UNCHANGED <<argc, doc, groupNames, stack, modIdx, expIdx, out>>

\* main.cpp:133-191: preamble, include(Reprojucer), the guard, jucer_project_begin
WriteHeader ==
  /\ pc = "header"
  /\ out' = out \o
       << Block("cmake_minimum_required", <<>>, << <<"VERSION 3.4">> >>),
          Block("list", <<>>, << <<"APPEND CMAKE_MODULE_PATH \"",
                                   "${CMAKE_CURRENT_LIST_DIR}/", "reprojucerDir", "\"">> >>),
          Block("include", <<>>, << <<"Reprojucer">> >>),
          Block("if", <<>>,
                << <<"NOT DEFINED ">> \o escapedJucerFileName \o <<"_FILE">>,
                   <<"message(FATAL_ERROR \"">> \o escapedJucerFileName
                     \o <<"_FILE must be defined\")">> >>),
          Block("get_filename_component", <<>>,
                << escapedJucerFileName \o <<"_FILE">>,
                   <<"\"${">> \o escapedJucerFileName \o <<"_FILE}\" ABSOLUTE">>,
                   <<"BASE_DIR \"${CMAKE_BINARY_DIR}\"">> >>),
          Block("jucer_project_begin", <<>>,
                << <<"PROJECT_FILE \"${">> \o escapedJucerFileName \o <<"_FILE}\"">>,
                   getSetting(project.props, "PROJECT_ID", "id") >>) >>
  /\ pc' = "settings"
  /\ UNCHANGED <<argc, xml, project, nodesLeft, doc, groupNames, stack, modIdx, expIdx,
                 err, exitStatus>>

\* main.cpp:201-208
projectTypeDescription(projectType) ==
  IF projectType = <<"guiapp">> THEN "GUI Application"
  ELSE IF projectType = <<"consoleapp">> THEN "Console Application"
  ELSE IF projectType = <<"library">> THEN "Static Library"
  ELSE IF projectType = <<"audioplug">> THEN "Audio Plug-in"
  ELSE ""

\* A variant of the plug-in test that also takes a library for a plug-in.
isAudioPlugOrLibrary(projectType) ==
  projectType = <<"audioplug">> \/ projectType = <<"library">>

\* main.cpp:225
isAudioPlug(projectType) == projectType = <<"audioplug">>

\* main.cpp:210-222
projectSettingsBlock(jucerProject) ==
  Block("jucer_project_settings", <<>>,
    << getSetting(jucerProject, "PROJECT_NAME", "name"),
       getSetting(jucerProject, "PROJECT_VERSION", "version"),
       getSetting(jucerProject, "COMPANY_NAME", "companyName"),
       getSetting(jucerProject, "COMPANY_WEBSITE", "companyWebsite"),
       getSetting(jucerProject, "COMPANY_EMAIL", "companyEmail"),
       <<"PROJECT_TYPE", " \"",
         projectTypeDescription(getProperty(jucerProject, "projectType")), "\"">>,
       getSetting(jucerProject, "BUNDLE_IDENTIFIER", "bundleIdentifier"),
       <<"BINARYDATACPP_SIZE_LIMIT", " \"", "Default", "\"">>,
       getSetting(jucerProject, "BINARYDATA_NAMESPACE", "binaryDataNamespace"),
       getSetting(jucerProject, "PREPROCESSOR_DEFINITIONS", "defines") >>)

\* main.cpp:240-264
audioPluginSettingsBlock(jucerProject) ==
  Block("jucer_audio_plugin_settings", <<>>,
    << onOffProjectSetting(jucerProject, "BUILD_VST", "buildVST"),
       onOffProjectSetting(jucerProject, "BUILD_AUDIOUNIT", "buildAU"),
       getSetting(jucerProject, "PLUGIN_NAME", "pluginName"),
       getSetting(jucerProject, "PLUGIN_DESCRIPTION", "pluginDesc"),
       getSetting(jucerProject, "PLUGIN_MANUFACTURER", "pluginManufacturer"),
       getSetting(jucerProject, "PLUGIN_MANUFACTURER_CODE", "pluginManufacturerCode"),
       getSetting(jucerProject, "PLUGIN_CODE", "pluginCode"),
       getSetting(jucerProject, "PLUGIN_CHANNEL_CONFIGURATIONS", "pluginChannelConfigs"),
       onOffProjectSetting(jucerProject, "PLUGIN_IS_A_SYNTH", "pluginIsSynth"),
       onOffProjectSetting(jucerProject, "PLUGIN_MIDI_INPUT", "pluginWantsMidiIn"),
       onOffProjectSetting(jucerProject, "PLUGIN_MIDI_OUTPUT", "pluginProducesMidiOut"),
       onOffProjectSetting(jucerProject, "MIDI_EFFECT_PLUGIN", "pluginIsMidiEffectPlugin"),
       onOffProjectSetting(jucerProject, "KEY_FOCUS", "pluginEditorRequiresKeys"),
       getSetting(jucerProject, "PLUGIN_AU_EXPORT_PREFIX", "pluginAUExportPrefix"),
       getSetting(jucerProject, "PLUGIN_AU_MAIN_TYPE", "pluginAUMainType"),
       getSetting(jucerProject, "VST_CATEGORY", "pluginVSTCategory") >>)

\* main.cpp:193-266
WriteSettings ==
  /\ pc = "settings"
  /\ out' = out \o <<projectSettingsBlock(project.props)>> \o
              (IF isAudioPlug(getProperty(project.props, "projectType"))
               THEN <<audioPluginSettingsBlock(project.props)>>
               ELSE <<>>)
  /\ pc' = "files"
  /\ UNCHANGED <<argc, xml, project, nodesLeft, doc, groupNames, stack, modIdx, expIdx,
                 err, exitStatus>>

(***************************************************************************)
(* jucer_project_files(): writeFileGroups and processGroup                 *)
(***************************************************************************)
quoted(value) == <<"\"">> \o value \o <<"\"">>

\* A variant of writeFileGroups that writes its blocks whether or not the lists
\* are empty.
writeFileGroupsUnguarded(fullGroupName, filePaths, doNotCompileFilePaths, resourcePaths) ==
  <<Block("jucer_project_files", fullGroupName,
          [i \in 1..Len(filePaths) |-> quoted(filePaths[i])])>> \o
  (IF doNotCompileFilePaths # <<>>
   THEN <<Block("set_source_files_properties", <<>>,
                [i \in 1..Len(doNotCompileFilePaths) |->
                   <<"\"", "${JUCER_PROJECT_DIR}/">> \o doNotCompileFilePaths[i]
                     \o <<"\"">>]
                \o << <<"PROPERTIES HEADER_FILE_ONLY TRUE">> >>)>>
   ELSE <<>>) \o
  <<Block("jucer_project_resources", fullGroupName,
          [i \in 1..Len(resourcePaths) |-> quoted(resourcePaths[i])])>>

\* main.cpp:270-313, as the blocks it appends to the output
writeFileGroups(fullGroupName, filePaths, doNotCompileFilePaths, resourcePaths) ==
  (IF filePaths # <<>>
   THEN <<Block("jucer_project_files", fullGroupName,
                [i \in 1..Len(filePaths) |-> quoted(filePaths[i])])>> \o
        (IF doNotCompileFilePaths # <<>>
         THEN <<Block("set_source_files_properties", <<>>,
                      [i \in 1..Len(doNotCompileFilePaths) |->
                         <<"\"", "${JUCER_PROJECT_DIR}/">> \o doNotCompileFilePaths[i]
                           \o <<"\"">>]
                      \o << <<"PROPERTIES HEADER_FILE_ONLY TRUE">> >>)>>
         ELSE <<>>)
   ELSE <<>>) \o
  (IF resourcePaths # <<>>
   THEN <<Block("jucer_project_resources", fullGroupName,
                [i \in 1..Len(resourcePaths) |-> quoted(resourcePaths[i])])>>
   ELSE <<>>)

\* juce::File::hasFileExtension (extension): the path ends with the extension,
\* whatever its case, and a dot precedes it
LowerCase(tok) == IF tok = "CPP" THEN "cpp" ELSE IF tok = "H" THEN "h" ELSE tok
hasFileExtension(path, extension) ==
  /\ Len(path) >= 2
  /\ LowerCase(path[Len(path)]) = extension
  /\ path[Len(path) - 1] = "."

\* A variant of the resource test that reads the compile property instead.
isResourceByCompile(file) == intProperty(file, "compile") = 1

\* main.cpp:333
isResource(file) == intProperty(file, "resource") = 1

\* main.cpp:341-342
isExcluded(file, path) ==
  hasFileExtension(path, "cpp") /\ intProperty(file, "compile") = 0

\* main.cpp:328-347: the loop body for a FILE child
addFile(frame, file) ==
  LET path == getProperty(file, "file")
  IN IF isResource(file)
     THEN [frame EXCEPT !.resourcePaths = Append(@, path)]
     ELSE IF isExcluded(file, path)
          THEN [frame EXCEPT !.filePaths = Append(@, path),
                             !.doNotCompileFilePaths = Append(@, path)]
          ELSE [frame EXCEPT !.filePaths = Append(@, path)]

\* A variant of the flush before a nested group that keeps the pending lists.
notCleared(frame) == frame

\* main.cpp:351-353
cleared(frame) ==
  [frame EXCEPT !.filePaths = <<>>, !.doNotCompileFilePaths = <<>>, !.resourcePaths = <<>>]

flushed(frame) ==
  writeFileGroups(frame.fullGroupName, frame.filePaths, frame.doNotCompileFilePaths,
                  frame.resourcePaths)

\* main.cpp:320-324: the names after push_back, and the new call's locals
newFrame(names) ==
  [fullGroupName |-> join(<<"/">>, names), filePaths |-> <<>>,
   doNotCompileFilePaths |-> <<>>, resourcePaths |-> <<>>]

\* A variant of the return from processGroup that leaves the name on the vector.
noPopBack(names) == names

\* main.cpp:361
popBack(names) == SubSeq(names, 1, Len(names) - 1)

(* The document: what the traversal can find under MAINGROUP.  File paths are
   distinct: the n-th FILE node of the document is Stems[n] with an extension. *)
Stems == <<"f1", "f2", "f3", "f4", "f5", "f6", "f7", "f8">>
\* FILE nodes with the given path: resource and compile each absent or one of
\* flags, for the sets of optional properties in keySets
FileNodes(path, keySets, flags) ==
  {[k \in {"file"} \cup ks |->
      IF k = "file" THEN path ELSE IF k = "resource" THEN r ELSE c] :
     ks \in keySets, r \in flags, c \in flags}

GroupNodes(names) == {[k \in {"name"} |-> n] : n \in names}

FilesRead == Len(SelectSeq(doc, LAMBDA e : e.ev = "file"))

\* main.cpp:364 and 320-324: processGroup is called on MAINGROUP
EnterMainGroup(In) ==
  /\ pc = "files"
  /\ \E group \in GroupNodes(In.names) :
       /\ groupNames' = Append(groupNames, getProperty(group, "name"))
       /\ stack' = Append(stack, newFrame(groupNames'))
       /\ doc' = Append(doc, [ev |-> "open", node |-> group])
  /\ pc' = "walk"
  /\ UNCHANGED <<argc, xml, project, nodesLeft, modIdx, expIdx, out, err, exitStatus>>

\* main.cpp:326-347: the next child is a FILE
VisitFile(In) ==
  /\ pc = "walk"
  /\ nodesLeft > 0
  /\ \E ext \in In.extensions :
       \E file \in FileNodes(<<Stems[FilesRead + 1], ".", ext>>, In.fileKeys, In.flags) :
         /\ stack' = [stack EXCEPT ![Len(stack)] = addFile(@, file)]
         /\ doc' = Append(doc, [ev |-> "file", node |-> file])
  /\ nodesLeft' = nodesLeft - 1
  /\ UNCHANGED <<pc, argc, xml, project, groupNames, modIdx, expIdx, out, err, exitStatus>>

\* main.cpp:348-356 and 320-324: the next child is not a FILE; the pending lists
\* are written and cleared, and processGroup is called on the child
VisitGroup(In) ==
  /\ pc = "walk"
  /\ nodesLeft > 0
  /\ Len(stack) < In.depth
  /\ \E group \in GroupNodes(In.names) :
       /\ out' = out \o flushed(stack[Len(stack)])
       /\ groupNames' = Append(groupNames, getProperty(group, "name"))
       /\ stack' = Append([stack EXCEPT ![Len(stack)] = cleared(@)], newFrame(groupNames'))
       /\ doc' = Append(doc, [ev |-> "open", node |-> group])
  /\ nodesLeft' = nodesLeft - 1
  /\ UNCHANGED <<pc, argc, xml, project, modIdx, expIdx, err, exitStatus>>

\* main.cpp:357-362: the children are exhausted; the pending lists are written,
\* the name is popped and processGroup returns
LeaveGroup ==
  /\ pc = "walk"
  /\ out' = out \o flushed(stack[Len(stack)])
  /\ groupNames' = popBack(groupNames)
  /\ stack' = SubSeq(stack, 1, Len(stack) - 1)
  /\ doc' = Append(doc, [ev |-> "close", node |-> <<>>])
  /\ pc' = IF Len(stack) = 1 THEN "modules" ELSE "walk"
  /\ UNCHANGED <<argc, xml, project, nodesLeft, modIdx, expIdx, err, exitStatus>>

(***************************************************************************)
(* jucer_project_module()                                                  *)
(***************************************************************************)
\* ValueTree::getChildWithProperty: the first child with that value, or an
\* invalid tree, which has no property
getChildWithProperty(children, property, value) ==
  LET hits == {i \in 1..Len(children) : getProperty(children[i].props, property) = value}
  IN IF hits = {} THEN [type |-> "", props |-> <<>>] ELSE children[Min(hits)]

\* ValueTree::getChildWithName: the first child of that type, or an invalid tree
getChildWithName(children, type) ==
  LET hits == {i \in 1..Len(children) : children[i].type = type}
  IN IF hits = {} THEN [type |-> "", props |-> <<>>, modulePaths |-> <<>>,
                        configurations |-> <<>>]
     ELSE children[Min(hits)]

isValid(tree) == tree.type # ""

\* main.cpp:375-377: MODULEPATHS of the first child of EXPORTFORMATS
modulePaths(jucerProject) ==
  IF jucerProject.exporters = <<>> THEN <<>> ELSE jucerProject.exporters[1].modulePaths

\* main.cpp:399-419: one line of the module header
moduleOptionLine(modulesOptions, line) ==
  IF line # <<>> /\ Head(line) = "/** Config: "
  THEN LET moduleOption == Tail(line)
           optionValue == IF Len(moduleOption) = 1
                          THEN getProperty(modulesOptions, moduleOption[1])
                          ELSE <<>>
       IN IF optionValue = <<"enabled">> THEN << <<>> \o moduleOption \o <<" ON">> >>
          ELSE IF optionValue = <<"disabled">> THEN << <<>> \o moduleOption \o <<" OFF">> >>
          ELSE << <<"# ">> \o moduleOption >>
  ELSE <<>>

RECURSIVE moduleOptionLines(_, _)
moduleOptionLines(modulesOptions, headerLines) ==
  IF headerLines = <<>> THEN <<>>
  ELSE moduleOptionLine(modulesOptions, Head(headerLines))
         \o moduleOptionLines(modulesOptions, Tail(headerLines))

\* main.cpp:379-423: the block of one module.  module.headerLines stands for the
\* lines of <module path>/<id>/<id>.h as read from the file system.
moduleBlock(jucerProject, module) ==
  LET moduleName == getProperty(module.props, "id")
      relativeModulePath ==
        getProperty(getChildWithProperty(modulePaths(jucerProject), "id", moduleName).props,
                    "path")
  IN Block("jucer_project_module", moduleName,
           << <<"PATH \"">> \o relativeModulePath \o <<"\"">> >>
             \o moduleOptionLines(jucerProject.options, module.headerLines))

WriteModule ==
  /\ pc = "modules"
  /\ modIdx < Len(project.modules)
  /\ out' = Append(out, moduleBlock(project, project.modules[modIdx + 1]))
  /\ modIdx' = modIdx + 1
  /\ UNCHANGED <<pc, argc, xml, project, nodesLeft, doc, groupNames, stack, expIdx,
                 err, exitStatus>>

ModulesDone ==
  /\ pc = "modules"
  /\ modIdx = Len(project.modules)
  /\ pc' = "exporters"
  /\ UNCHANGED <<argc, xml, project, nodesLeft, doc, groupNames, stack, modIdx, expIdx,
                 out, err, exitStatus>>

(***************************************************************************)
(* jucer_export_target() and jucer_export_target_configuration()           *)
(***************************************************************************)
\* A variant of the supported list that tries Visual Studio 2015 before Xcode.
supportedExportersVsFirst ==
  << <<"VS2015", "Visual Studio 2015",
       <<"c:", "\\", "SDKs", "\\", "VST_SDK", "\\", "VST3_SDK">> >>,
     <<"XCODE_MAC", "Xcode (MacOSX)", <<"~/SDKs/VST_SDK/VST3_SDK">> >>,
     <<"VS2013", "Visual Studio 2013",
       <<"c:", "\\", "SDKs", "\\", "VST_SDK", "\\", "VST3_SDK">> >> >>

\* main.cpp:429-432
supportedExporters ==
  << <<"XCODE_MAC", "Xcode (MacOSX)", <<"~/SDKs/VST_SDK/VST3_SDK">> >>,
     <<"VS2015", "Visual Studio 2015",
       <<"c:", "\\", "SDKs", "\\", "VST_SDK", "\\", "VST3_SDK">> >>,
     <<"VS2013", "Visual Studio 2013",
       <<"c:", "\\", "SDKs", "\\", "VST_SDK", "\\", "VST3_SDK">> >> >>

sdkName(minor) == <<"1", "0", ".">> \o minor \o <<" ", "S", "D", "K">>

\* main.cpp:506-513
sdks ==
  << sdkName(<<"5">>), sdkName(<<"6">>), sdkName(<<"7">>), sdkName(<<"8">>),
     sdkName(<<"9">>), sdkName(<<"1", "0">>), sdkName(<<"1", "1">>),
     sdkName(<<"1", "2">>) >>

inSdks(value) == \E i \in 1..Len(sdks) : sdks[i] = value

default == <<"d", "e", "f", "a", "u", "l", "t">>

\* A variant of the base-SDK mapping that takes any value ending in " SDK".
osxBaseSdkLineAnySdk(osxSDK) ==
  IF osxSDK = default THEN <<"OSX_BASE_SDK_VERSION", " \"", "Use Default", "\"">>
  ELSE IF Len(osxSDK) > 4 /\ SubSeq(osxSDK, Len(osxSDK) - 3, Len(osxSDK)) = <<" ", "S", "D", "K">>
       THEN <<"OSX_BASE_SDK_VERSION", " \"">> \o osxSDK \o <<"\"">>
       ELSE <<"# ", "OSX_BASE_SDK_VERSION">>

\* main.cpp:515-528
osxBaseSdkLine(osxSDK) ==
  IF osxSDK = default THEN <<"OSX_BASE_SDK_VERSION", " \"", "Use Default", "\"">>
  ELSE IF inSdks(osxSDK)
       THEN <<"OSX_BASE_SDK_VERSION", " \"">> \o osxSDK \o <<"\"">>
       ELSE <<"# ", "OSX_BASE_SDK_VERSION">>

\* main.cpp:530-544
osxDeploymentTargetLine(osxCompatibility) ==
  IF osxCompatibility = default
  THEN <<"OSX_DEPLOYMENT_TARGET", " \"", "Use Default", "\"">>
  ELSE IF inSdks(osxCompatibility)
       THEN <<"OSX_DEPLOYMENT_TARGET", " \"">>
              \o SubSeq(osxCompatibility, 1, Len(osxCompatibility) - 4) \o <<"\"">>
       ELSE <<"# ", "OSX_DEPLOYMENT_TARGET">>

\* File::getChildFile and File::getRelativePathFrom for relative paths without
\* "." or ".." segments: the path below the project directory
relativeToJucerFileDir(targetFolder, path) ==
  IF targetFolder = <<>> THEN path ELSE targetFolder \o <<"/">> \o path

\* main.cpp:470-499
headerSearchPathsLine(exporter, configuration) ==
  LET headerPath == getProperty(configuration, "headerPath")
      segments == split("\n", headerPath)
      kept == SelectSeq(segments, LAMBDA path : path # <<>>)
      pathsRelativeToJucerFileDir ==
        [i \in 1..Len(kept) |->
           relativeToJucerFileDir(getProperty(exporter.props, "targetFolder"), kept[i])]
  IN IF headerPath = <<>> THEN <<"# ", "HEADER_SEARCH_PATHS">>
     ELSE <<"HEADER_SEARCH_PATHS", " \"">>
            \o escape({"\\"}, join(<<"\n">>, pathsRelativeToJucerFileDir)) \o <<"\"">>

\* main.cpp:464-548: the block of one configuration
configurationBlock(element, exporter, configuration) ==
  Block("jucer_export_target_configuration", element[2],
        << <<"NAME", " \"">> \o getProperty(configuration, "name") \o <<"\"">>,
           headerSearchPathsLine(exporter, configuration),
           getSetting(configuration, "PREPROCESSOR_DEFINITIONS", "defines") >>
        \o (IF exporter.type = "XCODE_MAC"
            THEN << osxBaseSdkLine(getProperty(configuration, "osxSDK")),
                    osxDeploymentTargetLine(getProperty(configuration, "osxCompatibility")) >>
            ELSE <<>>))

\* main.cpp:443-447
hostsVst3(jucerProject) ==
  /\ isValid(getChildWithProperty(jucerProject.modules, "id", <<"juce_audio_processors">>))
  /\ getProperty(jucerProject.options, "JUCE_PLUGINHOST_VST3") = <<"enabled">>

\* main.cpp:440-462
exportTargetBlock(jucerProject, element, exporter) ==
  LET vst3Folder == getProperty(exporter.props, "vst3Folder")
  IN Block("jucer_export_target", element[2],
           (IF hostsVst3(jucerProject)
            THEN << <<"VST3_SDK_FOLDER", " \"">>
                      \o escape({"\\"}, IF vst3Folder = <<>> THEN element[3] ELSE vst3Folder)
                      \o <<"\"">> >>
            ELSE <<>>)
           \o << getSetting(exporter.props, "EXTRA_PREPROCESSOR_DEFINITIONS", "extraDefs"),
                 getSetting(exporter.props, "EXTRA_COMPILER_FLAGS", "extraCompilerFlags") >>)

\* main.cpp:434-551: one iteration over supportedExporters
exporterBlocks(jucerProject, element) ==
  LET exporter == getChildWithName(jucerProject.exporters, element[1])
  IN IF isValid(exporter)
     THEN <<exportTargetBlock(jucerProject, element, exporter)>> \o
          [i \in 1..Len(exporter.configurations) |->
             configurationBlock(element, exporter, exporter.configurations[i])]
     ELSE <<>>

TryExporter ==
  /\ pc = "exporters"
  /\ expIdx < Len(supportedExporters)
  /\ out' = out \o exporterBlocks(project, supportedExporters[expIdx + 1])
  /\ expIdx' = expIdx + 1
  /\ UNCHANGED <<pc, argc, xml, project, nodesLeft, doc, groupNames, stack, modIdx,
                 err, exitStatus>>

\* main.cpp:554-556
WriteEnd ==
  /\ pc = "exporters"
  /\ expIdx = Len(supportedExporters)
  /\ out' = Append(out, Block("jucer_project_end", <<>>, <<>>))
  /\ exitStatus' = 0
  /\ pc' = "done"
  /\ UNCHANGED <<argc, xml, project, nodesLeft, doc, groupNames, stack, modIdx, expIdx, err>>

(***************************************************************************)
(* Input documents                                                         *)
(***************************************************************************)
ProjectKeys ==
  {"id", "name", "version", "companyName", "companyWebsite", "companyEmail",
   "projectType", "bundleIdentifier", "binaryDataNamespace", "defines",
   "buildVST", "buildAU", "pluginName", "pluginDesc", "pluginManufacturer",
   "pluginManufacturerCode", "pluginCode", "pluginChannelConfigs", "pluginIsSynth",
   "pluginWantsMidiIn", "pluginProducesMidiOut", "pluginIsMidiEffectPlugin",
   "pluginEditorRequiresKeys", "pluginAUExportPrefix", "pluginAUMainType",
   "pluginVSTCategory"}
OnOffKeys ==
  {"buildVST", "buildAU", "pluginIsSynth", "pluginWantsMidiIn", "pluginProducesMidiOut",
   "pluginIsMidiEffectPlugin", "pluginEditorRequiresKeys"}

BaseProps ==
  [k \in ProjectKeys |->
     IF k = "projectType" THEN <<"audioplug">>
     ELSE IF k \in OnOffKeys THEN <<"1">> ELSE <<"v">>]

BaseConfiguration ==
  [name |-> <<"Debug">>, headerPath |-> <<"i", "\n", "\n", "j">>, defines |-> <<"v">>,
   osxSDK |-> sdkName(<<"9">>), osxCompatibility |-> sdkName(<<"1", "0">>)]

BaseExporterProps ==
  [targetFolder |-> <<"Builds">>, vst3Folder |-> <<"c:", "\\", "v">>,
   extraDefs |-> <<"v">>, extraCompilerFlags |-> <<"v">>]

ModulePathNode(id) ==
  [type |-> "MODULEPATH", props |-> [id |-> id, path |-> <<"../JUCE/modules">>]]

ExporterNode(type, props, configurations) ==
  [type |-> type, props |-> props,
   modulePaths |-> <<ModulePathNode(<<"juce_core">>)>>,
   configurations |-> configurations]

ModuleNode(id, headerLines) ==
  [type |-> "MODULE", props |-> [id |-> id], headerLines |-> headerLines]

CoreModule ==
  ModuleNode(<<"juce_core">>,
             << <<"#pragma once">>, <<"/** Config: ", "JUCE_FORCE_DEBUG">>,
                <<"/** Config: ", "JUCE_LOG_ASSERTIONS">>,
                <<"/** Config: ", "JUCE_CHECK_MEMORY_LEAKS">> >>)
ProcessorsModule ==
  ModuleNode(<<"juce_audio_processors">>, << <<"/** Config: ", "JUCE_PLUGINHOST_VST3">> >>)

BaseOptions ==
  [JUCE_PLUGINHOST_VST3 |-> <<"enabled">>, JUCE_FORCE_DEBUG |-> <<"disabled">>,
   JUCE_LOG_ASSERTIONS |-> <<"default">>]

BaseProject ==
  [type |-> "JUCERPROJECT", props |-> BaseProps,
   modules |-> <<CoreModule, ProcessorsModule>>, options |-> BaseOptions,
   exporters |-> <<ExporterNode("XCODE_MAC", BaseExporterProps, <<BaseConfiguration>>)>>]

\* A property set to a value, or removed
Present(value) == [absent |-> FALSE, value |-> value]
Absent == [absent |-> TRUE, value |-> <<>>]
setProp(props, key, v) ==
  IF v.absent THEN [k \in DOMAIN props \ {key} |-> props[k]]
  ELSE [k \in DOMAIN props \cup {key} |-> IF k = key THEN v.value ELSE props[k]]

ExporterKeys == {"vst3Folder", "extraDefs", "extraCompilerFlags"}
ConfigurationKeys == {"name", "headerPath", "defines", "osxSDK", "osxCompatibility"}
Sites ==
  {<<"project", k>> : k \in ProjectKeys} \cup {<<"exporter", k>> : k \in ExporterKeys}
    \cup {<<"configuration", k>> : k \in ConfigurationKeys}

\* The project with one property of the project, of its first exporter or of
\* that exporter's first configuration changed
vary(p, site, v) ==
  IF site[1] = "project" THEN [p EXCEPT !.props = setProp(@, site[2], v)]
  ELSE IF site[1] = "exporter"
       THEN [p EXCEPT !.exporters[1].props = setProp(@, site[2], v)]
       ELSE [p EXCEPT !.exporters[1].configurations[1] = setProp(@, site[2], v)]

RECURSIVE Unset(_, _)
Unset(P, n) ==
  IF n = 0 THEN P
  ELSE Unset(P \cup {vary(p, site, v) :
                         p \in P, site \in Sites, v \in {Absent, Present(<<>>)}},
             n - 1)

EscapeAlphabet == {"a", "\"", "\\"}
Strings(n) == UNION {[1..k -> EscapeAlphabet] : k \in 1..n}

\* Projects with up to MaxUnset properties absent or empty, or with one property
\* set to a string of up to MaxLen characters
PropsProjects ==
  Unset({BaseProject}, MaxUnset)
    \cup {vary(BaseProject, site, Present(str)) : site \in Sites, str \in Strings(MaxLen)}

\* Projects of every type, with and without modules and exporters
ProjectTypes ==
  {Present(<<"guiapp">>), Present(<<"consoleapp">>), Present(<<"library">>),
   Present(<<"audioplug">>), Present(<<"dll">>), Absent}
MainProjects ==
  {[BaseProject EXCEPT !.props = setProp(@, "projectType", t), !.modules = m,
                       !.exporters = e] :
     t \in ProjectTypes,
     m \in {<<>>, <<CoreModule>>, <<CoreModule, ProcessorsModule>>},
     e \in {<<>>,
            <<ExporterNode("XCODE_MAC", BaseExporterProps, <<BaseConfiguration>>)>>,
            <<ExporterNode("VS2015", BaseExporterProps, <<BaseConfiguration>>),
              ExporterNode("XCODE_MAC", BaseExporterProps, <<>>)>>,
            <<ExporterNode("LINUX_MAKE", BaseExporterProps, <<BaseConfiguration>>)>>}}

\* Configurations with every kind of osxSDK and osxCompatibility value
OsxValues ==
  {Absent, Present(<<>>), Present(default), Present(<<"D">> \o Tail(default)),
   Present(sdkName(<<"9", "9">>)), Present(sdkName(<<"4">>)),
   Present(<<"1", "0", ".", "9">>)}
    \cup {Present(sdks[i]) : i \in 1..Len(sdks)}
OsxConfigurations ==
  {setProp(setProp(BaseConfiguration, "osxSDK", v), "osxCompatibility", w) :
     v \in OsxValues, w \in OsxValues}

\* Exporters in every document order, each with up to MaxConfigs configurations
ExporterTypes == {"XCODE_MAC", "VS2015", "VS2013", "LINUX_MAKE"}
ConfigurationNames == <<"Debug", "Release", "Profile", "Custom", "Extra", "Spare">>
Arrangements ==
  UNION {{a \in [1..k -> ExporterTypes] : \A i, j \in 1..k : a[i] = a[j] => i = j} :
           k \in 0..Cardinality(ExporterTypes)}
NamedConfigurations(type, n) ==
  [i \in 1..n |-> setProp(BaseConfiguration, "name", Present(<<type, " ", ConfigurationNames[i]>>))]
OrderedExporters ==
  {[i \in 1..Len(a) |-> ExporterNode(a[i], BaseExporterProps, NamedConfigurations(a[i], n[a[i]]))] :
     a \in Arrangements, n \in [ExporterTypes -> 0..MaxConfigs]}
\* Documents that hold two exporters of one kind, with different configurations
RepeatedExporters ==
  {<<ExporterNode(t, BaseExporterProps, NamedConfigurations(t, 1)),
     ExporterNode(u, BaseExporterProps, NamedConfigurations(u, 1)),
     ExporterNode(t, BaseExporterProps, NamedConfigurations("Second", 2))>> :
     t \in {"XCODE_MAC", "VS2013"}, u \in {"VS2015", "LINUX_MAKE"}}
ExportProjects ==
  {[BaseProject EXCEPT !.exporters = <<ExporterNode(t, BaseExporterProps, <<c>>)>>] :
     t \in {"XCODE_MAC", "VS2015"}, c \in OsxConfigurations}
    \cup {[BaseProject EXCEPT !.exporters = e] : e \in OrderedExporters}
    \cup {[BaseProject EXCEPT !.exporters = e] : e \in RepeatedExporters}

\* Small file trees, for the specifications that vary something else
SmallTree(projects) ==
  [projects |-> projects, nodes |-> 2, depth |-> 2, names |-> {<<"A">>},
   extensions |-> {"cpp"}, fileKeys |-> {{}, {"resource"}}, flags |-> {<<"1">>}]

MainInputs == SmallTree(MainProjects)
PropsInputs == [SmallTree(PropsProjects) EXCEPT !.nodes = 1, !.fileKeys = {{}}]
ExportInputs == [SmallTree(ExportProjects) EXCEPT !.nodes = 1, !.fileKeys = {{}}]
FilesInputs ==
  [projects |-> {BaseProject}, nodes |-> MaxNodes, depth |-> MaxDepth,
   names |-> {<<"A">>, <<"B">>}, extensions |-> {"cpp", "h"},
   fileKeys |-> SUBSET {"resource", "compile"}, flags |-> {<<"0">>, <<"1">>}]

\* Deeper trees of .cpp files: plain, resource = 1 or compile = 1
TreeInputs ==
  [projects |-> {BaseProject}, nodes |-> MaxTreeNodes, depth |-> MaxTreeDepth,
   names |-> {<<"A">>, <<"B">>}, extensions |-> {"cpp"},
   fileKeys |-> {{}, {"resource"}, {"compile"}}, flags |-> {<<"1">>}]

(***************************************************************************)
(* Specifications: main on the inputs of In                                *)
(***************************************************************************)
NextOf(In) ==
  \/ CheckArguments
  \/ ParseProject(In)
  \/ WriteHeader
  \/ WriteSettings
  \/ EnterMainGroup(In)
  \/ VisitFile(In)
  \/ VisitGroup(In)
  \/ LeaveGroup
  \/ WriteModule
  \/ ModulesDone
  \/ TryExporter
  \/ WriteEnd

Next == NextOf(MainInputs)
NextFiles == NextOf(FilesInputs)
NextProps == NextOf(PropsInputs)
NextExport == NextOf(ExportInputs)
NextTree == NextOf(TreeInputs)

Spec == Init /\ [][Next]_vars
SpecFiles == Init /\ [][NextFiles]_vars
SpecProps == Init /\ [][NextProps]_vars
SpecExport == Init /\ [][NextExport]_vars
SpecTree == Init /\ [][NextTree]_vars

(***************************************************************************)
(* Reading the document and the output, for the properties below           *)
(***************************************************************************)
Range(seq) == {seq[i] : i \in 1..Len(seq)}

FileEvents == {k \in 1..Len(doc) : doc[k].ev = "file"}
PathOf(k) == doc[k].node["file"]
HasFlag(k, property, flag) ==
  property \in DOMAIN doc[k].node /\ doc[k].node[property] = <<flag>>
IsResourceNode(k) == HasFlag(k, "resource", "1")
IsCppPath(path) == Len(path) >= 2 /\ SubSeq(path, Len(path) - 1, Len(path)) = <<".", "cpp">>

\* The names of the groups entered and not yet left after the first k events
RECURSIVE OpenNames(_)
OpenNames(k) ==
  IF k = 0 THEN <<>>
  ELSE LET before == OpenNames(k - 1)
       IN IF doc[k].ev = "open"
          THEN Append(before, IF "name" \in DOMAIN doc[k].node THEN doc[k].node["name"]
                              ELSE <<>>)
          ELSE IF doc[k].ev = "close" THEN SubSeq(before, 1, Len(before) - 1)
          ELSE before

\* names[1] "/" names[2] "/" ... "/" names[n]
RECURSIVE SlashJoined(_)
SlashJoined(names) ==
  IF Len(names) = 0 THEN <<>>
  ELSE IF Len(names) = 1 THEN names[1]
  ELSE SlashJoined(SubSeq(names, 1, Len(names) - 1)) \o <<"/">> \o names[Len(names)]

\* The full name of the group that directly encloses the k-th event
EnclosingName(k) == SlashJoined(OpenNames(k))

\* The last open or close event before the k-th event: files with the same
\* boundary lie in one uninterrupted run of FILE children of one group
Boundary(k) == CHOOSE b \in 0..k : /\ b = 0 \/ doc[b].ev # "file"
                                   /\ \A c \in (b + 1)..k : doc[c].ev = "file"

TraversalDone == pc \in {"modules", "exporters", "done"} /\ doc # <<>>

IsFilesBlock(b) == b.directive = "jucer_project_files"
IsResourcesBlock(b) == b.directive = "jucer_project_resources"
IsHeaderOnlyBlock(b) == b.directive = "set_source_files_properties"
GroupBlocks == {i \in 1..Len(out) : IsFilesBlock(out[i]) \/ IsResourcesBlock(out[i])}
HeaderOnlyBlocks == {i \in 1..Len(out) : IsHeaderOnlyBlock(out[i])}

Unquoted(line) == SubSeq(line, 2, Len(line) - 1)
\* The paths listed by a jucer_project_files or jucer_project_resources block
ListedPaths(b) == [j \in 1..Len(b.lines) |-> Unquoted(b.lines[j])]
\* The paths a set_source_files_properties block marks HEADER_FILE_ONLY, without
\* the ${JUCER_PROJECT_DIR}/ in front of each
MarkedPaths(b) == [j \in 1..(Len(b.lines) - 1) |-> SubSeq(b.lines[j], 3, Len(b.lines[j]) - 1)]
\* The HEADER_FILE_ONLY list of the files block at i: the block right after it
HeaderOnlyOf(i) ==
  IF i < Len(out) /\ IsHeaderOnlyBlock(out[i + 1]) THEN Range(MarkedPaths(out[i + 1])) ELSE {}

InFilesList(path) == \E i \in GroupBlocks : IsFilesBlock(out[i]) /\ path \in Range(ListedPaths(out[i]))
InResourcesList(path) ==
  \E i \in GroupBlocks : IsResourcesBlock(out[i]) /\ path \in Range(ListedPaths(out[i]))
InHeaderOnlyList(path) == \E i \in HeaderOnlyBlocks : path \in Range(MarkedPaths(out[i]))

(***************************************************************************)
(* C1: once the traversal is over, every FILE node that is not a resource  *)
(* and whose path has the .cpp extension is in the jucer_project_files     *)
(* list of a block of its group; with compile = 0 it is also in that       *)
(* block's HEADER_FILE_ONLY list, and with compile = 1 or no compile       *)
(* property it is in no HEADER_FILE_ONLY list.                             *)
(***************************************************************************)
C1_CompileFlagDecidesExclusion ==
  TraversalDone =>
    \A k \in FileEvents :
      (~IsResourceNode(k) /\ IsCppPath(PathOf(k))) =>
        /\ \E i \in GroupBlocks :
             /\ IsFilesBlock(out[i])
             /\ out[i].name = EnclosingName(k)
             /\ PathOf(k) \in Range(ListedPaths(out[i]))
             /\ HasFlag(k, "compile", "0") => PathOf(k) \in HeaderOnlyOf(i)
        /\ (HasFlag(k, "compile", "1") \/ "compile" \notin DOMAIN doc[k].node)
             => ~InHeaderOnlyList(PathOf(k))

(***************************************************************************)
(* C2: the path of a FILE node with resource = 1 is in no                  *)
(* jucer_project_files list and in no HEADER_FILE_ONLY list, whatever its  *)
(* compile value and extension, and once the traversal is over it is in a  *)
(* jucer_project_resources block; every path in a HEADER_FILE_ONLY list is *)
(* the path of a FILE node that is not a resource.                         *)
(***************************************************************************)
C2_ResourcesOnlyInResourceBlocks ==
  /\ \A k \in FileEvents :
       IsResourceNode(k) =>
         /\ ~InFilesList(PathOf(k))
         /\ ~InHeaderOnlyList(PathOf(k))
         /\ TraversalDone => InResourcesList(PathOf(k))
  /\ \A i \in HeaderOnlyBlocks :
       \A path \in Range(MarkedPaths(out[i])) :
         \E k \in FileEvents : PathOf(k) = path /\ ~IsResourceNode(k)

\* A .cpp resource with compile = 0 has been written, in a resources block
C2_Witness ==
  /\ TraversalDone
  /\ \E k \in FileEvents :
       /\ IsResourceNode(k) /\ HasFlag(k, "compile", "0") /\ IsCppPath(PathOf(k))
       /\ InResourcesList(PathOf(k))
  /\ HeaderOnlyBlocks # {}

\* What one step of the traversal does to the blocks and to the name vector
C3_Step ==
  /\ \A i \in (Len(out) + 1)..Len(out') :
       (IsFilesBlock(out'[i]) \/ IsResourcesBlock(out'[i]))
         => out'[i].name = EnclosingName(Len(doc))
  /\ groupNames' = OpenNames(Len(doc))'
  /\ pc' # "walk" => groupNames' = <<>>

(***************************************************************************)
(* C3: in every step of the traversal, each jucer_project_files and        *)
(* jucer_project_resources block written by the step is named by the       *)
(* '/'-join, root first, of the names of the groups entered and not yet    *)
(* left; after the step the name vector holds exactly the names of the     *)
(* groups entered and not yet left, and it is empty once the traversal is  *)
(* over.                                                                   *)
(***************************************************************************)
C3_FullGroupNameIsJoinOfEnteredGroups == [][C3_Step]_vars

\* A file of B inside A was written under A/B, then a file of A under A
C3_Witness ==
  \E i, j \in GroupBlocks :
    /\ i < j
    /\ out[i].name = <<"A", "/", "B">>
    /\ out[j].name = <<"A">>
    /\ groupNames = <<>>

DocIndex(path) == CHOOSE k \in FileEvents : PathOf(k) = path
Listings(path) ==
  {ij \in UNION {{<<i, j>> : j \in 1..Len(out[i].lines)} : i \in GroupBlocks} :
     Unquoted(out[ij[1]].lines[ij[2]]) = path}
Flushed(k) == TraversalDone \/ \E b \in (k + 1)..Len(doc) : doc[b].ev # "file"
RunOf(i) == Boundary(DocIndex(ListedPaths(out[i])[1]))

(***************************************************************************)
(* C9: blocks are written depth first, in document order, at the           *)
(* boundaries of the runs of FILE children.  Every path of a block is the  *)
(* path of a FILE node directly inside the group the block is named after, *)
(* in a resources block exactly when the node is a resource; the paths of  *)
(* a block come from one uninterrupted run of FILE children and are in     *)
(* document order; a FILE node is listed exactly once as soon as a group   *)
(* was entered or left after it (or the traversal is over) and not before; *)
(* of two blocks the earlier one comes from an earlier run, or from the    *)
(* same run and then it is the files block and the later one the resources *)
(* block.                                                                  *)
(***************************************************************************)
C9_DepthFirstFlushOnBoundary ==
  /\ \A i \in GroupBlocks :
       \A path \in Range(ListedPaths(out[i])) :
         \E k \in FileEvents :
           /\ PathOf(k) = path
           /\ EnclosingName(k) = out[i].name
           /\ IsResourcesBlock(out[i]) <=> IsResourceNode(k)
  /\ \A i \in GroupBlocks :
       LET paths == ListedPaths(out[i])
       IN \A j1, j2 \in 1..Len(paths) :
            j1 < j2 => /\ DocIndex(paths[j1]) < DocIndex(paths[j2])
                       /\ Boundary(DocIndex(paths[j1])) = Boundary(DocIndex(paths[j2]))
  /\ \A k \in FileEvents :
       Cardinality(Listings(PathOf(k))) = IF Flushed(k) THEN 1 ELSE 0
  /\ \A i1, i2 \in GroupBlocks :
       (i1 < i2 /\ out[i1].lines # <<>> /\ out[i2].lines # <<>>) =>
         \/ RunOf(i1) < RunOf(i2)
         \/ RunOf(i1) = RunOf(i2) /\ IsFilesBlock(out[i1]) /\ IsResourcesBlock(out[i2])

\* A group had a file, then a subgroup with a file, then a resource: three
\* blocks have been written in that order
C9_Witness ==
  /\ TraversalDone
  /\ Len(doc) = 7
  /\ doc[2].ev = "file" /\ doc[3].ev = "open" /\ doc[4].ev = "file"
  /\ doc[5].ev = "close" /\ doc[6].ev = "file"
  /\ IsResourceNode(6) /\ ~IsResourceNode(2)
  /\ \E i \in GroupBlocks :
       /\ {i + 1, i + 2} \subseteq GroupBlocks
       /\ ListedPaths(out[i]) = <<PathOf(2)>>
       /\ ListedPaths(out[i + 1]) = <<PathOf(4)>>
       /\ ListedPaths(out[i + 2]) = <<PathOf(6)>>

(***************************************************************************)
(* C10: no block of the traversal is empty.  Every jucer_project_files and *)
(* jucer_project_resources block lists at least one path, and is named     *)
(* after a group that directly holds a FILE node of its kind, so that a    *)
(* group holding no file (resource) directly has no files (resources)      *)
(* block under its name; every HEADER_FILE_ONLY list has at least one path,*)
(* follows a jucer_project_files block directly and lists only paths of    *)
(* that block.                                                             *)
(***************************************************************************)
C10_NoEmptyBlock ==
  /\ \A i \in GroupBlocks :
       /\ Len(out[i].lines) > 0
       /\ \E k \in FileEvents :
            /\ EnclosingName(k) = out[i].name
            /\ IsResourcesBlock(out[i]) <=> IsResourceNode(k)
  /\ \A i \in HeaderOnlyBlocks :
       /\ Len(out[i].lines) > 1
       /\ out[i].lines[Len(out[i].lines)] = <<"PROPERTIES HEADER_FILE_ONLY TRUE">>
       /\ i > 1
       /\ IsFilesBlock(out[i - 1])
       /\ Range(MarkedPaths(out[i])) \subseteq Range(ListedPaths(out[i - 1]))

\* The root holds only a subgroup and an empty subgroup, and a HEADER_FILE_ONLY
\* list was written: no block is named after the root or the empty subgroup
C10_Witness ==
  /\ TraversalDone
  /\ Len(doc) = 7
  /\ doc[2].ev = "open" /\ doc[3].ev = "file" /\ doc[4].ev = "close"
  /\ doc[5].ev = "open" /\ doc[6].ev = "close"
  /\ doc[2].node # doc[5].node
  /\ Cardinality(GroupBlocks) = 1
  /\ Cardinality(HeaderOnlyBlocks) = 1

InvalidDocument == xml \in {"nullptr", "OTHER"}

(***************************************************************************)
(* C5 as stated: a run with a wrong argument count, an unparsable document *)
(* or a wrong root element ends with exactly one line `error: <message>`   *)
(* on the error stream, status 1 and no directive written; every other run *)
(* ends with status 0.                                                     *)
(***************************************************************************)
C5_Original ==
  pc = "done" =>
    IF argc # 3 \/ InvalidDocument
    THEN /\ Len(err) = 1
         /\ Head(err[1]) = "error: "
         /\ exitStatus = 1
         /\ out = <<>>
    ELSE exitStatus = 0

(***************************************************************************)
(* C5, amended: a run with a wrong argument count ends with exactly one    *)
(* line on the error stream, the usage line `usage: Jucer2CMake            *)
(* <jucer_project_file> <Reprojucer.cmake_file>`, status 1 and no          *)
(* directive written; a run whose document cannot be parsed or has another *)
(* root element ends with exactly one line `error: <path> is not a valid   *)
(* Jucer project.`, status 1 and no directive written; every other run     *)
(* ends with status 0 and nothing on the error stream.  Nothing is written *)
(* to the error stream and no status is returned before the end.           *)
(***************************************************************************)
C5_ProcessOutcome ==
  IF pc # "done" THEN exitStatus = Running /\ err = <<>>
  ELSE IF argc # 3
       THEN /\ err = << <<"usage: Jucer2CMake", " <jucer_project_file>",
                          " <Reprojucer.cmake_file>">> >>
            /\ exitStatus = 1
            /\ out = <<>>
       ELSE IF InvalidDocument
            THEN /\ err = << <<"error: ">> \o jucerFilePath
                               \o <<" is not a valid Jucer project.">> >>
                 /\ exitStatus = 1
                 /\ out = <<>>
            ELSE exitStatus = 0 /\ err = <<>>

\* A run given one argument too many has ended
C5_Witness == pc = "done" /\ argc = 4 /\ Len(err) = 1 /\ exitStatus = 1

Stage(directive) ==
  CASE directive \in {"cmake_minimum_required", "list", "include"} -> 0
    [] directive \in {"if", "get_filename_component"} -> 1
    [] directive = "jucer_project_begin" -> 2
    [] directive = "jucer_project_settings" -> 3
    [] directive = "jucer_audio_plugin_settings" -> 4
    [] directive \in {"jucer_project_files", "set_source_files_properties",
                      "jucer_project_resources"} -> 5
    [] directive = "jucer_project_module" -> 6
    [] directive \in {"jucer_export_target", "jucer_export_target_configuration"} -> 7
    [] directive = "jucer_project_end" -> 8

Count(directive) == Cardinality({i \in 1..Len(out) : out[i].directive = directive})
IsPlugin == "projectType" \in DOMAIN project.props /\ project.props["projectType"] = <<"audioplug">>

(***************************************************************************)
(* C6: the blocks of the output are in the order guard, project-begin,     *)
(* project-settings, plug-in settings, file and resource blocks, module    *)
(* blocks, export-target and configuration blocks, project-end: no block   *)
(* of a later stage precedes a block of an earlier one.  The plug-in       *)
(* settings block is written exactly when projectType is "audioplug"; a    *)
(* successful run writes one guard, one project-begin, one                 *)
(* project-settings and exactly one project-end, which comes last; a       *)
(* project without modules has no module block and a project without       *)
(* exporters no export-target or configuration block.                      *)
(***************************************************************************)
C6_TopLevelOrder ==
  /\ \A i, j \in 1..Len(out) : i < j => Stage(out[i].directive) <= Stage(out[j].directive)
  /\ pc \in {"files", "walk", "modules", "exporters", "done"} /\ out # <<>> =>
       /\ Count("if") = 1
       /\ Count("jucer_project_begin") = 1
       /\ Count("jucer_project_settings") = 1
       /\ Count("jucer_audio_plugin_settings") = IF IsPlugin THEN 1 ELSE 0
       /\ project.modules = <<>> => Count("jucer_project_module") = 0
       /\ project.exporters = <<>> =>
            Count("jucer_export_target") + Count("jucer_export_target_configuration") = 0
  /\ Count("jucer_project_end") = IF pc = "done" /\ exitStatus = 0 THEN 1 ELSE 0
  /\ pc = "done" /\ exitStatus = 0 => out[Len(out)].directive = "jucer_project_end"

\* A plug-in project with files, resources, modules and an exporter has been
\* translated: blocks of every stage have been written
C6_Witness ==
  /\ pc = "done"
  /\ \A n \in 1..8 : \E i \in 1..Len(out) : Stage(out[i].directive) = n
  /\ Count("jucer_project_resources") > 0

Decimal(n) == IF n < 10 THEN <<Digits[n + 1]>> ELSE <<Digits[(n \div 10) + 1], Digits[(n % 10) + 1]>>
TenPoint(n) == <<"1", "0", ".">> \o Decimal(n)
AllowedSdk(n) == TenPoint(n) \o <<" ", "S", "D", "K">>
Tagged(line, tag) ==
  line # <<>> /\ (line[1] = tag \/ (Len(line) > 1 /\ line[1] = "# " /\ line[2] = tag))
LinesTagged(b, tag) == SelectSeq(b.lines, LAMBDA line : Tagged(line, tag))

ValueOf(props, key) == IF key \in DOMAIN props THEN props[key] ELSE <<>>
ExpectedOsxLine(tag, value, keepSuffix) ==
  IF value = <<"d", "e", "f", "a", "u", "l", "t">> THEN <<tag, " \"", "Use Default", "\"">>
  ELSE IF \E n \in 5..12 : value = AllowedSdk(n)
       THEN LET n == CHOOSE n \in 5..12 : value = AllowedSdk(n)
            IN <<tag, " \"">> \o (IF keepSuffix THEN AllowedSdk(n) ELSE TenPoint(n)) \o <<"\"">>
       ELSE <<"# ", tag>>

\* The configuration blocks written for the exporter with that display name
ConfigurationBlocks(displayName) ==
  SelectSeq(out, LAMBDA b : b.directive = "jucer_export_target_configuration"
                            /\ b.name = displayName)
\* The configurations of the first exporter of that type in the document
ConfigurationsOf(type) ==
  LET hits == {i \in 1..Len(project.exporters) : project.exporters[i].type = type}
  IN IF hits = {} THEN <<>> ELSE project.exporters[Min(hits)].configurations

(***************************************************************************)
(* C7: the configuration blocks of the XCODE_MAC exporter carry, for       *)
(* osxSDK and for osxCompatibility, exactly one line each: "Use Default"   *)
(* for the value "default"; for a value "10.n SDK" with n in 5..12 the     *)
(* value itself as OSX_BASE_SDK_VERSION and "10.n" as                      *)
(* OSX_DEPLOYMENT_TARGET; the commented placeholder for every other value, *)
(* an absent or empty one included.  The configuration blocks of the other *)
(* exporters carry neither line.                                           *)
(***************************************************************************)
C7_OsxSdkMapping ==
  pc \in {"exporters", "done"} /\ project.type = "JUCERPROJECT" =>
    /\ expIdx >= 1 =>
         /\ Len(ConfigurationBlocks("Xcode (MacOSX)")) = Len(ConfigurationsOf("XCODE_MAC"))
         /\ \A i \in 1..Len(ConfigurationsOf("XCODE_MAC")) :
              LET b == ConfigurationBlocks("Xcode (MacOSX)")[i]
                  c == ConfigurationsOf("XCODE_MAC")[i]
              IN /\ LinesTagged(b, "OSX_BASE_SDK_VERSION")
                      = <<ExpectedOsxLine("OSX_BASE_SDK_VERSION", ValueOf(c, "osxSDK"), TRUE)>>
                 /\ LinesTagged(b, "OSX_DEPLOYMENT_TARGET")
                      = <<ExpectedOsxLine("OSX_DEPLOYMENT_TARGET",
                                          ValueOf(c, "osxCompatibility"), FALSE)>>
    /\ \A i \in 1..Len(out) :
         (out[i].directive = "jucer_export_target_configuration"
            /\ out[i].name # "Xcode (MacOSX)") =>
           /\ LinesTagged(out[i], "OSX_BASE_SDK_VERSION") = <<>>
           /\ LinesTagged(out[i], "OSX_DEPLOYMENT_TARGET") = <<>>

\* An Xcode configuration with osxSDK "10.12 SDK" and osxCompatibility
\* "10.10 SDK" has been written
C7_Witness ==
  /\ pc = "done" /\ exitStatus = 0
  /\ Len(ConfigurationsOf("XCODE_MAC")) = 1
  /\ ValueOf(ConfigurationsOf("XCODE_MAC")[1], "osxSDK") = AllowedSdk(12)
  /\ ValueOf(ConfigurationsOf("XCODE_MAC")[1], "osxCompatibility") = AllowedSdk(10)
  /\ \E i \in 1..Len(out) :
       /\ out[i].directive = "jucer_export_target_configuration"
       /\ <<"OSX_DEPLOYMENT_TARGET", " \"", "1", "0", ".", "1", "0", "\"">> \in Range(out[i].lines)

(***************************************************************************)
(* The arguments main renders from one property each                       *)
(***************************************************************************)
Arg(node, directive, tag, key) == [node |-> node, directive |-> directive, tag |-> tag, key |-> key]

\* rendered by getSetting
SettingArgs ==
  { Arg("project", "jucer_project_begin", "PROJECT_ID", "id"),
    Arg("project", "jucer_project_settings", "PROJECT_NAME", "name"),
    Arg("project", "jucer_project_settings", "PROJECT_VERSION", "version"),
    Arg("project", "jucer_project_settings", "COMPANY_NAME", "companyName"),
    Arg("project", "jucer_project_settings", "COMPANY_WEBSITE", "companyWebsite"),
    Arg("project", "jucer_project_settings", "COMPANY_EMAIL", "companyEmail"),
    Arg("project", "jucer_project_settings", "BUNDLE_IDENTIFIER", "bundleIdentifier"),
    Arg("project", "jucer_project_settings", "BINARYDATA_NAMESPACE", "binaryDataNamespace"),
    Arg("project", "jucer_project_settings", "PREPROCESSOR_DEFINITIONS", "defines"),
    Arg("project", "jucer_audio_plugin_settings", "PLUGIN_NAME", "pluginName"),
    Arg("project", "jucer_audio_plugin_settings", "PLUGIN_DESCRIPTION", "pluginDesc"),
    Arg("project", "jucer_audio_plugin_settings", "PLUGIN_MANUFACTURER", "pluginManufacturer"),
    Arg("project", "jucer_audio_plugin_settings", "PLUGIN_MANUFACTURER_CODE",
        "pluginManufacturerCode"),
    Arg("project", "jucer_audio_plugin_settings", "PLUGIN_CODE", "pluginCode"),
    Arg("project", "jucer_audio_plugin_settings", "PLUGIN_CHANNEL_CONFIGURATIONS",
        "pluginChannelConfigs"),
    Arg("project", "jucer_audio_plugin_settings", "PLUGIN_AU_EXPORT_PREFIX",
        "pluginAUExportPrefix"),
    Arg("project", "jucer_audio_plugin_settings", "PLUGIN_AU_MAIN_TYPE", "pluginAUMainType"),
    Arg("project", "jucer_audio_plugin_settings", "VST_CATEGORY", "pluginVSTCategory"),
    Arg("exporter", "jucer_export_target", "EXTRA_PREPROCESSOR_DEFINITIONS", "extraDefs"),
    Arg("exporter", "jucer_export_target", "EXTRA_COMPILER_FLAGS", "extraCompilerFlags"),
    Arg("configuration", "jucer_export_target_configuration", "PREPROCESSOR_DEFINITIONS",
        "defines") }

\* validated or computed, with a placeholder of their own
CheckedArgs ==
  { Arg("configuration", "jucer_export_target_configuration", "HEADER_SEARCH_PATHS",
        "headerPath"),
    Arg("configuration", "jucer_export_target_configuration", "OSX_BASE_SDK_VERSION",
        "osxSDK"),
    Arg("configuration", "jucer_export_target_configuration", "OSX_DEPLOYMENT_TARGET",
        "osxCompatibility") }

\* the on/off flags of the plug-in settings
OnOffArgs ==
  { Arg("project", "jucer_audio_plugin_settings", "BUILD_VST", "buildVST"),
    Arg("project", "jucer_audio_plugin_settings", "BUILD_AUDIOUNIT", "buildAU"),
    Arg("project", "jucer_audio_plugin_settings", "PLUGIN_IS_A_SYNTH", "pluginIsSynth"),
    Arg("project", "jucer_audio_plugin_settings", "PLUGIN_MIDI_INPUT", "pluginWantsMidiIn"),
    Arg("project", "jucer_audio_plugin_settings", "PLUGIN_MIDI_OUTPUT",
        "pluginProducesMidiOut"),
    Arg("project", "jucer_audio_plugin_settings", "MIDI_EFFECT_PLUGIN",
        "pluginIsMidiEffectPlugin"),
    Arg("project", "jucer_audio_plugin_settings", "KEY_FOCUS", "pluginEditorRequiresKeys") }

\* always written with a value
ValueArgs ==
  { Arg("project", "jucer_project_settings", "PROJECT_TYPE", "projectType"),
    Arg("exporter", "jucer_export_target", "VST3_SDK_FOLDER", "vst3Folder"),
    Arg("configuration", "jucer_export_target_configuration", "NAME", "name") }

\* The properties an argument is read from: the project's, its first exporter's
\* or that exporter's first configuration's
PropsAt(node) ==
  IF project.type # "JUCERPROJECT" THEN <<>>
  ELSE IF node = "project" THEN project.props
  ELSE IF project.exporters = <<>> THEN <<>>
  ELSE IF node = "exporter" THEN project.exporters[1].props
  ELSE IF project.exporters[1].configurations = <<>> THEN <<>>
  ELSE project.exporters[1].configurations[1]

IsUnset(arg) == ValueOf(PropsAt(arg.node), arg.key) = <<>>
BlocksOf(arg) == {i \in 1..Len(out) : out[i].directive = arg.directive}
Placeholder(arg) == <<"# ", arg.tag>>

RECURSIVE BackslashesBefore(_, _)
BackslashesBefore(text, i) ==
  IF i > 1 /\ text[i - 1] = "\\" THEN 1 + BackslashesBefore(text, i - 1) ELSE 0

(***************************************************************************)
(* C4 as stated: where getSetting renders a value, every double quote of   *)
(* the text between the enclosing quotes has an odd number of backslashes  *)
(* right before it (one backslash that escapes it, itself not escaped),    *)
(* and a value without a double quote is rendered unchanged.               *)
(***************************************************************************)
C4_EveryQuoteEscapedOnce ==
  \A arg \in SettingArgs :
    \A i \in BlocksOf(arg) :
      \A j \in 1..Len(out[i].lines) :
        out[i].lines[j][1] = arg.tag =>
          LET value == ValueOf(PropsAt(arg.node), arg.key)
              text == Unquoted(Tail(out[i].lines[j]))
          IN IF "\"" \in Range(value)
             THEN \A q \in 1..Len(text) :
                    text[q] = "\"" => BackslashesBefore(text, q) % 2 = 1
             ELSE text = value

OnlyPlaceholder(arg) ==
  \A i \in BlocksOf(arg) : LinesTagged(out[i], arg.tag) = <<Placeholder(arg)>>

\* A project has been parsed: no error is reported, the run can go on until it
\* is over, and then it has ended with jucer_project_end and status 0
RunsToProjectEnd ==
  project.type = "JUCERPROJECT" =>
    /\ err = <<>>
    /\ exitStatus # 1
    /\ pc # "done" => ENABLED NextProps
    /\ pc = "done" => exitStatus = 0 /\ out[Len(out)].directive = "jucer_project_end"

(***************************************************************************)
(* C8 as stated: every argument rendered from a property that is absent or *)
(* empty is the commented placeholder `# ARG` and nothing else, and the    *)
(* translation goes on to jucer_project_end without an error.              *)
(***************************************************************************)
C8_UnsetYieldsPlaceholder ==
  /\ \A arg \in SettingArgs \cup CheckedArgs \cup OnOffArgs \cup ValueArgs :
       IsUnset(arg) => OnlyPlaceholder(arg)
  /\ RunsToProjectEnd

(***************************************************************************)
(* The export-target and configuration blocks, in the order written        *)
(***************************************************************************)
IsTargetBlock(b) == b.directive = "jucer_export_target"
IsConfigurationBlock(b) == b.directive = "jucer_export_target_configuration"
ExportBlocks == SelectSeq(out, LAMBDA b : IsTargetBlock(b) \/ IsConfigurationBlock(b))
TargetBlocks == SelectSeq(out, IsTargetBlock)

\* The supported kinds and their display names, in the fixed order
FixedOrder ==
  << [type |-> "XCODE_MAC", displayName |-> "Xcode (MacOSX)"],
     [type |-> "VS2015", displayName |-> "Visual Studio 2015"],
     [type |-> "VS2013", displayName |-> "Visual Studio 2013"] >>

InDocument(type) == \E i \in 1..Len(project.exporters) : project.exporters[i].type = type

\* The supported kinds tried so far that the document holds, in the fixed order
KindsWritten == SelectSeq(SubSeq(FixedOrder, 1, expIdx), LAMBDA e : InDocument(e.type))

\* The target-open block that a block of the export stage follows most closely
OpenTarget(i) == Max({j \in 1..i : IsTargetBlock(ExportBlocks[j])})

(***************************************************************************)
(* C11: the jucer_export_target blocks are those of the supported kinds    *)
(* the document holds, one each, in the order Xcode (MacOSX), Visual       *)
(* Studio 2015, Visual Studio 2013, whatever the order of the exporters in *)
(* the document, and none is written for another kind; each is followed    *)
(* directly by one jucer_export_target_configuration block per             *)
(* configuration of that exporter, in document order and under the same    *)
(* display name, and the block after the last of them is not a             *)
(* configuration block; every configuration block carries the display name *)
(* of the jucer_export_target block that precedes it most closely.         *)
(***************************************************************************)
C11_ExportersInFixedOrder ==
  project.type = "JUCERPROJECT" =>
    /\ [i \in 1..Len(TargetBlocks) |-> TargetBlocks[i].name]
         = [i \in 1..Len(KindsWritten) |-> KindsWritten[i].displayName]
    /\ \A k \in 1..Len(KindsWritten) :
         \E i \in 1..Len(ExportBlocks) :
           LET configurations == ConfigurationsOf(KindsWritten[k].type)
               n == Len(configurations)
           IN /\ IsTargetBlock(ExportBlocks[i])
              /\ ExportBlocks[i].name = KindsWritten[k].displayName
              /\ i + n <= Len(ExportBlocks)
              /\ \A j \in 1..n :
                   /\ IsConfigurationBlock(ExportBlocks[i + j])
                   /\ ExportBlocks[i + j].name = KindsWritten[k].displayName
                   /\ LinesTagged(ExportBlocks[i + j], "NAME")
                        = << <<"NAME", " \"">> \o ValueOf(configurations[j], "name")
                               \o <<"\"">> >>
              /\ i + n < Len(ExportBlocks) => IsTargetBlock(ExportBlocks[i + n + 1])
    /\ \A i \in 1..Len(ExportBlocks) :
         IsConfigurationBlock(ExportBlocks[i]) =>
           /\ \E j \in 1..i : IsTargetBlock(ExportBlocks[j])
           /\ ExportBlocks[OpenTarget(i)].name = ExportBlocks[i].name
    /\ \A i \in 1..Len(out) :
         (IsTargetBlock(out[i]) \/ IsConfigurationBlock(out[i])) =>
           \A j \in i..Len(out) :
             IsTargetBlock(out[j]) \/ IsConfigurationBlock(out[j])
               \/ out[j].directive = "jucer_project_end"

\* A document listing Visual Studio 2013, then an unsupported exporter, then
\* Xcode, each with two configurations, has been translated: the Xcode target
\* and its two configurations were written before those of Visual Studio 2013
C11_Witness ==
  /\ pc = "done" /\ exitStatus = 0
  /\ Len(project.exporters) = 3
  /\ project.exporters[1].type = "VS2013"
  /\ project.exporters[2].type = "LINUX_MAKE"
  /\ project.exporters[3].type = "XCODE_MAC"
  /\ \A i \in 1..3 : Len(project.exporters[i].configurations) = 2
  /\ [i \in 1..Len(ExportBlocks) |-> ExportBlocks[i].name]
       = <<"Xcode (MacOSX)", "Xcode (MacOSX)", "Xcode (MacOSX)",
           "Visual Studio 2013", "Visual Studio 2013", "Visual Studio 2013">>

====
